---------------------------- MODULE Spec2Model ----------------------------
(***************************************************************************)
(* A model of the character catalogue API (src/server.js) and of its      *)
(* browser client (src/unnamed/part_000).                                  *)
(*                                                                         *)
(* src/server.js holds two definitions of the server.  The first spans     *)
(* lines 1-270 and the second lines 276-462; their /characters handlers    *)
(* differ and are modelled as GetCharactersA and GetCharactersB.           *)
(*                                                                         *)
(* JavaScript strings are TLA+ strings, handled with Len, SubSeq, Tail and *)
(* \o.  JavaScript values are tagged records (Undefined, Null, Str, NumV,  *)
(* Obj, Arr) and a plain object is a function from its keys to values.     *)
(***************************************************************************)
EXTENDS Integers, Sequences, FiniteSets, TLC

VARIABLES
    db,            \* router.db 'characters': the collection, loaded once
    last,          \* the last request handled by the server and its response
    searchValue,   \* client: searchInput.value
    currentPage,   \* client: let currentPage
    itemsPerPage,  \* client: let itemsPerPage
    totalPages,    \* client: let totalPages
    container,     \* client: what container.innerHTML shows
    buttons,       \* client: the rendered pagination buttons
    inflight,      \* client: fetches awaiting their response
    issued,        \* client: number of fetches issued so far
    anyFailed      \* client: whether some fetch was rejected

vars == <<db, last, searchValue, currentPage, itemsPerPage, totalPages,
          container, buttons, inflight, issued, anyFailed>>

serverVars == <<db, last>>

clientVars == <<searchValue, currentPage, itemsPerPage, totalPages,
                container, buttons, inflight, issued, anyFailed>>

-----------------------------------------------------------------------------
(* Bounds of the model *)

MaxRecords == 3

MaxRequests == 4

-----------------------------------------------------------------------------
(* Integer helpers: Math.max, Math.min, Math.ceil(a / b), Math.sign *)

Max(a, b) == IF a >= b THEN a ELSE b

Min(a, b) == IF a <= b THEN a ELSE b

CeilDiv(a, b) == (a + b - 1) \div b

Sign(n) == IF n < 0 THEN -1 ELSE IF n > 0 THEN 1 ELSE 0

-----------------------------------------------------------------------------
(* JavaScript string methods *)

Ch(s, i) == SubSeq(s, i, i)

UpperChars == "ABCDEFGHIJKLMNOPQRSTUVWXYZ"

LowerChars == "abcdefghijklmnopqrstuvwxyz"

Digits == "0123456789"

\* The position of every character of an alphabet in it
IndexMap(alphabet) ==
    [c \in {Ch(alphabet, i) : i \in 1..Len(alphabet)} |->
        CHOOSE i \in 1..Len(alphabet) : Ch(alphabet, i) = c]

UpperIndex == IndexMap(UpperChars)

DigitIndex == IndexMap(Digits)

LowerCh(c) ==
    IF c \in DOMAIN UpperIndex THEN Ch(LowerChars, UpperIndex[c]) ELSE c

RECURSIVE toLowerCase(_)
toLowerCase(s) ==
    IF s = "" THEN "" ELSE LowerCh(Ch(s, 1)) \o toLowerCase(Tail(s))

RECURSIVE trimStart(_)
trimStart(s) ==
    IF s # "" /\ Ch(s, 1) = " " THEN trimStart(Tail(s)) ELSE s

RECURSIVE trimEnd(_)
trimEnd(s) ==
    IF s # "" /\ Ch(s, Len(s)) = " " THEN trimEnd(SubSeq(s, 1, Len(s) - 1)) ELSE s

trim(s) == trimEnd(trimStart(s))

RECURSIVE splitFrom(_, _, _)
splitFrom(s, sep, cur) ==
    IF s = "" THEN <<cur>>
    ELSE IF Ch(s, 1) = sep THEN <<cur>> \o splitFrom(Tail(s), sep, "")
    ELSE splitFrom(Tail(s), sep, cur \o Ch(s, 1))

\* String.prototype.split on a one-character separator: "".split(",") is [""]
split(s, sep) == splitFrom(s, sep, "")

\* String.prototype.includes
includes(s, sub) ==
    \E i \in 1..(Len(s) - Len(sub) + 1) : SubSeq(s, i, i + Len(sub) - 1) = sub

\* Array.prototype.includes on a sequence
arrayIncludes(arr, x) == \E i \in 1..Len(arr) : arr[i] = x

\* filter(Boolean) on a sequence of strings: drops the empty ones
NonEmpty(s) == s # ""

RECURSIVE joinComma(_)
joinComma(arr) ==
    IF arr = <<>> THEN ""
    ELSE IF Len(arr) = 1 THEN arr[1]
    ELSE arr[1] \o "," \o joinComma(Tail(arr))

-----------------------------------------------------------------------------
(* JavaScript numbers: a number is [nan |-> TRUE] or [nan |-> FALSE, n |-> Int] *)

NaN == [nan |-> TRUE]

Finite(n) == [nan |-> FALSE, n |-> n]

IsDigit(c) == c \in DOMAIN DigitIndex

RECURSIVE digitPrefix(_)
digitPrefix(s) ==
    IF s # "" /\ IsDigit(Ch(s, 1)) THEN Ch(s, 1) \o digitPrefix(Tail(s)) ELSE ""

RECURSIVE digitsValue(_, _)
digitsValue(s, acc) ==
    IF s = "" THEN acc
    ELSE digitsValue(Tail(s), acc * 10 + (DigitIndex[Ch(s, 1)] - 1))

HasSign(s) == s # "" /\ Ch(s, 1) \in {"-", "+"}

Signed(s, v) == IF s # "" /\ Ch(s, 1) = "-" THEN 0 - v ELSE v

\* parseInt(s, 10): leading white space, an optional sign, the longest run of
\* digits; NaN when there is no digit
parseInt(s) ==
    LET t == trimStart(s)
        body == IF HasSign(t) THEN Tail(t) ELSE t
        d == digitPrefix(body)
    IN IF d = "" THEN NaN ELSE Finite(Signed(t, digitsValue(d, 0)))

\* Number(s) of a string of the model's alphabet (no '.', 'e', 'x', "Infinity"):
\* white space is trimmed, the empty string is 0, a signed run of digits is its
\* value, anything else is NaN
NumberOfString(s) ==
    LET t == trim(s)
        body == IF HasSign(t) THEN Tail(t) ELSE t
    IN IF t = "" THEN Finite(0)
       ELSE IF body # "" /\ digitPrefix(body) = body
            THEN Finite(Signed(t, digitsValue(body, 0)))
       ELSE NaN

RECURSIVE natToString(_)
natToString(n) ==
    IF n < 10 THEN Ch(Digits, n + 1)
    ELSE natToString(n \div 10) \o Ch(Digits, (n % 10) + 1)

intToString(n) == IF n < 0 THEN "-" \o natToString(0 - n) ELSE natToString(n)

\* x || d for a number x: NaN and 0 are falsy
OrDefault(x, d) == IF x.nan \/ x.n = 0 THEN d ELSE x.n

-----------------------------------------------------------------------------
(* JavaScript values *)

Undefined == [t |-> "undefined"]

Null == [t |-> "null"]

Str(s) == [t |-> "str", v |-> s]

NumV(n) == [t |-> "num", n |-> n]

Obj(f) == [t |-> "obj", f |-> f]

Arr(a) == [t |-> "arr", a |-> a]

EmptyObject == [k \in {} |-> Undefined]

Put(f, k, v) == [y \in DOMAIN f \cup {k} |-> IF y = k THEN v ELSE f[y]]

IsNullish(v) == v.t \in {"undefined", "null"}

\* !v is false
Truthy(v) ==
    CASE v.t = "undefined" -> FALSE
      [] v.t = "null" -> FALSE
      [] v.t = "str" -> v.v # ""
      [] v.t = "num" -> v.n # 0
      [] OTHER -> TRUE

RECURSIVE String(_)
String(v) ==
    CASE v.t = "undefined" -> "undefined"
      [] v.t = "null" -> "null"
      [] v.t = "str" -> v.v
      [] v.t = "num" -> intToString(v.n)
      [] v.t = "arr" -> joinComma([i \in 1..Len(v.a) |->
                            IF IsNullish(v.a[i]) THEN "" ELSE String(v.a[i])])
      [] OTHER -> "[object Object]"

Number(v) ==
    CASE v.t = "undefined" -> NaN
      [] v.t = "null" -> Finite(0)
      [] v.t = "num" -> Finite(v.n)
      [] v.t = "obj" -> NaN
      [] OTHER -> NumberOfString(String(v))

\* acc[key]: own properties of plain objects; a string, a number or an array has
\* none of the keys the model uses
Member(v, key) ==
    IF v.t = "obj" /\ key \in DOMAIN v.f THEN v.f[key] ELSE Undefined

-----------------------------------------------------------------------------
(* Path resolver and projection *)

RECURSIVE reduceGet(_, _)
reduceGet(acc, keys) ==
    IF keys = <<>> THEN acc
    ELSE reduceGet(IF IsNullish(acc) THEN Undefined ELSE Member(acc, Head(keys)),
                   Tail(keys))

\* getByPath(obj, path): undefined for an empty path, else the reduce over the keys
getByPath(obj, path) ==
    IF path = "" THEN Undefined ELSE reduceGet(obj, split(path, "."))

\* norm(v): '' for null and undefined, else the lower-cased text
norm(v) == IF IsNullish(v) THEN "" ELSE toLowerCase(String(v))

RECURSIVE setKeys(_, _, _)
setKeys(node, keys, value) ==
    LET k == Head(keys)
        child == IF k \in DOMAIN node /\ node[k].t = "obj" THEN node[k].f
                 ELSE EmptyObject
    IN IF Len(keys) = 1 THEN Put(node, k, value)
       ELSE Put(node, k, Obj(setKeys(child, Tail(keys), value)))

\* setByPath(target, path, value): the target after the write (a plain object)
setByPath(target, path, value) == setKeys(target, split(path, "."), value)

\* Mutant: the whole top-level group of the path is copied, not the leaf
RECURSIVE copyGroups(_, _, _)
copyGroups(out, character, list) ==
    IF list = <<>> THEN out
    ELSE LET p == Head(split(Head(list), "."))
             val == getByPath(character, p)
         IN copyGroups(IF val.t # "undefined" THEN setByPath(out, p, val) ELSE out,
                       character, Tail(list))

RECURSIVE copyPaths(_, _, _)
copyPaths(out, character, list) ==
    IF list = <<>> THEN out
    ELSE LET p == Head(list)
             val == getByPath(character, p)
         IN copyPaths(IF val.t # "undefined" THEN setByPath(out, p, val) ELSE out,
                      character, Tail(list))

\* The fields argument of prepareCharacter: the string given, or an array of strings
FieldString(s) == [isArray |-> FALSE, s |-> s]

FieldArray(a) == [isArray |-> TRUE, a |-> a]

prepareCharacter(character, fields) ==
    IF ~Truthy(character) THEN character
    ELSE IF (~fields.isArray /\ fields.s = "*")
            \/ (fields.isArray /\ arrayIncludes(fields.a, "*"))
    THEN character
    ELSE LET list == IF fields.isArray
                     THEN SelectSeq([i \in 1..Len(SelectSeq(fields.a, NonEmpty)) |->
                                        trim(SelectSeq(fields.a, NonEmpty)[i])],
                                    NonEmpty)
                     ELSE <<>>
         IN IF list = <<>> THEN Obj(EmptyObject)
            ELSE Obj(copyPaths(EmptyObject, character, list))

\* The whitelist the /characters handlers project every record on
ListFields == FieldArray(<<"id", "name", "images", "appearance.race">>)

-----------------------------------------------------------------------------
(* localeCompare(b, undefined, {sensitivity: 'base'}) and Array.prototype.sort *)

\* Collation order of the characters of the model: white space and punctuation,
\* then digits, then letters; case is ignored at sensitivity 'base'
CollationOrder == " -/,.0123456789abcdefghijklmnopqrstuvwxyz"

CollationIndex == IndexMap(CollationOrder)

CharRank(c) ==
    IF LowerCh(c) \in DOMAIN CollationIndex THEN CollationIndex[LowerCh(c)] ELSE 0

RECURSIVE localeCompare(_, _)
localeCompare(a, b) ==
    IF a = "" /\ b = "" THEN 0
    ELSE IF a = "" THEN -1
    ELSE IF b = "" THEN 1
    ELSE IF CharRank(Ch(a, 1)) < CharRank(Ch(b, 1)) THEN -1
    ELSE IF CharRank(Ch(a, 1)) > CharRank(Ch(b, 1)) THEN 1
    ELSE localeCompare(Tail(a), Tail(b))

ListPermutations(list) ==
    {[i \in 1..Len(list) |-> list[p[i]]] :
        p \in {q \in [1..Len(list) -> 1..Len(list)] :
                  \A i, j \in 1..Len(list) : q[i] = q[j] => i = j}}

\* cmp[i][j] is the comparator's answer on the i-th and j-th element.  The
\* comparator is consistent when it is a strict weak order on them.
ConsistentComparator(n, cmp) ==
    /\ \A i, j \in 1..n : Sign(cmp[i][j]) = 0 - Sign(cmp[j][i])
    /\ \A i, j, k \in 1..n :
          /\ (cmp[i][j] = 0 /\ cmp[j][k] = 0) => cmp[i][k] = 0
          /\ (cmp[i][j] < 0 /\ cmp[j][k] < 0) => cmp[i][k] < 0

RECURSIVE insertStable(_, _, _)
insertStable(sorted, x, cmp) ==
    IF sorted = <<>> THEN <<x>>
    ELSE IF cmp[sorted[Len(sorted)]][x] > 0
         THEN Append(insertStable(SubSeq(sorted, 1, Len(sorted) - 1), x, cmp),
                     sorted[Len(sorted)])
    ELSE Append(sorted, x)

RECURSIVE insertionSort(_, _)
insertionSort(k, cmp) ==
    IF k = 0 THEN <<>> ELSE insertStable(insertionSort(k - 1, cmp), k, cmp)

\* Array.prototype.sort: stable, and in the order of the comparator when the
\* comparator is consistent; with an inconsistent comparator the order is
\* implementation-defined (ECMA-262, Array.prototype.sort), so any permutation
sortOutcomes(list, cmp) ==
    IF ConsistentComparator(Len(list), cmp)
    THEN {[i \in 1..Len(list) |-> list[insertionSort(Len(list), cmp)[i]]]}
    ELSE ListPermutations(list)

-----------------------------------------------------------------------------
(* The collection: characters.json is not part of the sources; the records  *)
(* below have the shape the handlers read                                   *)

Character(id, name, slug, fullName, publisher, appearance, powerstats) ==
    Obj([id |-> NumV(id), name |-> Str(name), slug |-> Str(slug),
         biography |-> Obj([fullName |-> Str(fullName), publisher |-> Str(publisher)]),
         appearance |-> Obj(appearance),
         images |-> Obj([sm |-> Str("sm.jpg")])]
        @@ powerstats)

SpiderMan ==
    Character(1, "Spider-Man", "1-spider-man", "Peter Parker", "Marvel",
              [gender |-> Str("Male"), race |-> Str("Human")],
              [powerstats |-> Obj([strength |-> NumV(9)])])

Cyborg ==
    Character(2, "Cyborg", "2-cyborg", "Victor Stone", "DC Comics",
              [gender |-> Str("Male"), race |-> Str("Human / Cyborg")],
              [powerstats |-> Obj([strength |-> Str("10")])])

Batman ==
    Character(3, "Batman", "3-batman", "Bruce Wayne", "DC Comics",
              [gender |-> Str("Male"), race |-> Str("-")],
              [powerstats |-> Obj([strength |-> Str("1a")])])

Hela ==
    Character(4, "Hela", "4-hela", "", "Marvel",
              [gender |-> Str("Female")],
              EmptyObject)

Storm ==
    Character(5, "Storm", "5-storm", "Ororo Munroe", "Marvel",
              [gender |-> Str("Female"), race |-> Str("Mutant /")],
              [powerstats |-> Obj([strength |-> NumV(9)])])

Pool == {SpiderMan, Cyborg, Batman, Hela, Storm}

Collections ==
    UNION {{c \in [1..n -> Pool] : \A i, j \in 1..n : c[i] = c[j] => i = j} :
              n \in 0..MaxRecords}

-----------------------------------------------------------------------------
(* GET /races *)

IsPlaceholder(r) ==
    r = "" \/ r = "-" \/ toLowerCase(r) = "null" \/ toLowerCase(r) = "n/a"

\* addRace on the insertion-ordered Set racesSet
addRace(racesSet, val) ==
    LET r == trim(val)
    IN IF IsPlaceholder(r) \/ arrayIncludes(racesSet, r) THEN racesSet
       ELSE Append(racesSet, r)

RECURSIVE addParts(_, _)
addParts(racesSet, parts) ==
    IF parts = <<>> THEN racesSet
    ELSE addParts(addRace(racesSet, Head(parts)), Tail(parts))

\* split on '/', trim every part, drop the empty ones
SlashParts(raw) ==
    SelectSeq([i \in 1..Len(split(raw, "/")) |-> trim(split(raw, "/")[i])], NonEmpty)

\* ch?.appearance?.race
RaceOf(ch) == reduceGet(ch, <<"appearance", "race">>)

RECURSIVE collectRaces(_, _)
collectRaces(racesSet, list) ==
    IF list = <<>> THEN racesSet
    ELSE LET race == RaceOf(Head(list))
             raw == String(race)
             parts == SlashParts(raw)
         IN collectRaces(IF ~Truthy(race) THEN racesSet
                         ELSE IF Len(parts) > 1 THEN addParts(racesSet, parts)
                         ELSE addRace(racesSet, raw),
                         Tail(list))

racesComparator(races) ==
    [i \in 1..Len(races) |-> [j \in 1..Len(races) |-> localeCompare(races[i], races[j])]]

racesResponses(list) ==
    LET racesSet == collectRaces(<<>>, list)
    IN sortOutcomes(racesSet, racesComparator(racesSet))

GetRaces ==
    /\ last = [op |-> "none"]
    /\ \E races \in racesResponses(db) :
          last' = [op |-> "races", races |-> races]
    /\ UNCHANGED <<db, clientVars>>

-----------------------------------------------------------------------------
(* GET /characters: the request *)

\* req.query: a function from the parameter names present to their text
Query(pairs) ==
    [k \in {p[1] : p \in pairs} |-> (CHOOSE p \in pairs : p[1] = k)[2]]

\* req.query[k1] || req.query[k2] || dflt
FirstParam(q, k1, k2, dflt) ==
    IF k1 \in DOMAIN q /\ q[k1] # "" THEN q[k1]
    ELSE IF k2 \in DOMAIN q /\ q[k2] # "" THEN q[k2]
    ELSE dflt

DefaultLimit == 20

parsePage(q) == Max(1, OrDefault(parseInt(FirstParam(q, "page", "_page", "1")), 1))

parseLimit(q) ==
    Max(1, OrDefault(parseInt(FirstParam(q, "limit", "_limit", "20")), DefaultLimit))

sortKeyOf(q) == trim(FirstParam(q, "sort", "_sort", ""))

sortOrderOf(q) ==
    IF toLowerCase(FirstParam(q, "order", "_order", "asc")) = "desc" THEN "desc"
    ELSE "asc"

excluded ==
    {"page", "_page", "limit", "_limit", "sort", "_sort", "order", "_order", "q", "race"}

filtersOf(q) == [k \in DOMAIN q \ excluded |-> q[k]]

-----------------------------------------------------------------------------
(* GET /characters, first definition: search, race filter, field filters, sort *)

searchTermA(q) == trim(FirstParam(q, "q", "q", ""))

searchMatchA(item, nq) ==
    \/ includes(norm(Member(item, "name")), nq)
    \/ includes(norm(Member(item, "slug")), nq)
    \/ includes(norm(getByPath(item, "biography.fullName")), nq)
    \/ includes(norm(getByPath(item, "biography.publisher")), nq)

applySearchA(list, q) ==
    LET nq == toLowerCase(searchTermA(q))
        Test(item) == searchMatchA(item, nq)
    IN IF searchTermA(q) # "" THEN SelectSeq(list, Test) ELSE list

racesWantedA(q) ==
    LET tokens == split(q["race"], ",")
    IN SelectSeq([i \in 1..Len(tokens) |-> toLowerCase(trim(tokens[i]))], NonEmpty)

raceMatchA(item, racesWanted) ==
    LET raw == RaceOf(item)
        split_ == split(String(raw), "/")
        parts == SelectSeq([i \in 1..Len(split_) |-> toLowerCase(trim(split_[i]))],
                           NonEmpty)
    IN IF ~Truthy(raw) THEN FALSE
       ELSE \E i \in 1..Len(parts) : arrayIncludes(racesWanted, parts[i])

applyRaceA(list, q) ==
    LET Test(item) == raceMatchA(item, racesWantedA(q))
    IN IF "race" \in DOMAIN q /\ racesWantedA(q) # <<>> THEN SelectSeq(list, Test)
       ELSE list

fieldMatch(item, key, expected) ==
    LET actual == getByPath(item, key)
        expNum == NumberOfString(expected)
        actNum == Number(actual)
    IN IF actual.t = "arr"
       THEN arrayIncludes([i \in 1..Len(actual.a) |-> String(actual.a[i])], expected)
       ELSE IF ~expNum.nan /\ ~actNum.nan THEN actNum.n = expNum.n
       ELSE includes(norm(actual), toLowerCase(expected))

applyFilters(list, filters) ==
    LET Test(item) == \A key \in DOMAIN filters : fieldMatch(item, key, filters[key])
    IN IF DOMAIN filters # {} THEN SelectSeq(list, Test) ELSE list

\* Mutant: a record missing the key ranks first whatever the direction
sortCompareMissingFirst(a, b, sortKey, sortOrder) ==
    LET va == getByPath(a, sortKey)
        vb == getByPath(b, sortKey)
        na == Number(va)
        nb == Number(vb)
        cmp == IF ~na.nan /\ ~nb.nan THEN na.n - nb.n
               ELSE localeCompare(String(va), String(vb))
    IN IF IsNullish(va) /\ IsNullish(vb) THEN 0
       ELSE IF IsNullish(va) THEN -1
       ELSE IF IsNullish(vb) THEN 1
       ELSE IF sortOrder = "asc" THEN cmp ELSE 0 - cmp

sortCompare(a, b, sortKey, sortOrder) ==
    LET va == getByPath(a, sortKey)
        vb == getByPath(b, sortKey)
        na == Number(va)
        nb == Number(vb)
        cmp == IF ~na.nan /\ ~nb.nan THEN na.n - nb.n
               ELSE localeCompare(String(va), String(vb))
    IN IF IsNullish(va) /\ IsNullish(vb) THEN 0
       ELSE IF IsNullish(va) THEN (IF sortOrder = "asc" THEN -1 ELSE 1)
       ELSE IF IsNullish(vb) THEN (IF sortOrder = "asc" THEN 1 ELSE -1)
       ELSE IF sortOrder = "asc" THEN cmp ELSE 0 - cmp

sortComparator(list, sortKey, sortOrder) ==
    [i \in 1..Len(list) |-> [j \in 1..Len(list) |->
        sortCompare(list[i], list[j], sortKey, sortOrder)]]

applySort(list, q) ==
    IF sortKeyOf(q) # ""
    THEN sortOutcomes(list, sortComparator(list, sortKeyOf(q), sortOrderOf(q)))
    ELSE {list}

-----------------------------------------------------------------------------
(* GET /characters: pagination and projection, the same in both definitions *)

\* list.slice(start, end) of a 0-indexed array; a negative index counts from the end
slice(list, start, end) ==
    LET len == Len(list)
        from == IF start < 0 THEN Max(len + start, 0) ELSE Min(start, len)
        to == IF end < 0 THEN Max(len + end, 0) ELSE Min(end, len)
    IN IF from >= to THEN <<>> ELSE SubSeq(list, from + 1, to)

\* Mutant: the page count without its floor of 1
paginateNoFloor(list, page, limit) ==
    LET total == Len(list)
        pages == CeilDiv(total, limit)
        current == Min(page, pages)
        start == (current - 1) * limit
        end == start + limit
    IN [data |-> slice(list, start, end),
        meta |-> [total |-> total, page |-> current, limit |-> limit, pages |-> pages]]

\* Mutant: the requested page taken as it is, not clamped to the last page
paginateNoClamp(list, page, limit) ==
    LET total == Len(list)
        pages == Max(1, CeilDiv(total, limit))
        start == (page - 1) * limit
        end == start + limit
    IN [data |-> slice(list, start, end),
        meta |-> [total |-> total, page |-> page, limit |-> limit, pages |-> pages]]

paginate(list, page, limit) ==
    LET total == Len(list)
        pages == Max(1, CeilDiv(total, limit))
        current == Min(page, pages)
        start == (current - 1) * limit
        end == start + limit
    IN [data |-> slice(list, start, end),
        meta |-> [total |-> total, page |-> current, limit |-> limit, pages |-> pages]]

payloadOf(data) == [i \in 1..Len(data) |-> prepareCharacter(data[i], ListFields)]

\* What the handler computed for request q: the response (data, meta), the
\* constants it parsed from the request (term: q, filters, sortKey, page) and the lists
\* it went through
Handled(def, q, term, filters, sortKey, searched, raced, filtered, sorted) ==
    LET paged == paginate(sorted, parsePage(q), parseLimit(q))
    IN [op |-> "characters", def |-> def, query |-> q,
        term |-> term, filters |-> filters, sortKey |-> sortKey,
        page |-> parsePage(q),
        searched |-> searched, raced |-> raced, filtered |-> filtered,
        sorted |-> sorted, slice |-> paged.data,
        data |-> payloadOf(paged.data), meta |-> paged.meta]

charactersResponsesA(list, q) ==
    LET searched == applySearchA(list, q)
        raced == applyRaceA(searched, q)
        filtered == applyFilters(raced, filtersOf(q))
    IN {Handled("A", q, searchTermA(q), filtersOf(q), sortKeyOf(q), searched, raced, filtered, sorted) :
           sorted \in applySort(filtered, q)}

-----------------------------------------------------------------------------
(* GET /characters, second definition: search on the name, race filter *)

searchTermB(q) == trim(toLowerCase(FirstParam(q, "q", "search", "")))

applySearchB(list, q) ==
    LET nq == toLowerCase(searchTermB(q))
        Test(item) == includes(norm(Member(item, "name")), nq)
    IN IF searchTermB(q) # "" THEN SelectSeq(list, Test) ELSE list

racesWantedB(q) ==
    SelectSeq(split(trim(toLowerCase(FirstParam(q, "race", "race", ""))), ","), NonEmpty)

\* item?.appearance?.race?.toLowerCase().split('/') ?? [] (every race of the
\* collection is a string or is missing, so toLowerCase never throws)
raceMatchB(item, race) ==
    LET raw == RaceOf(item)
        races == IF IsNullish(raw) THEN <<>> ELSE split(toLowerCase(String(raw)), "/")
    IN \E i \in 1..Len(race) : arrayIncludes(races, race[i])

applyRaceB(list, q) ==
    LET Test(item) == raceMatchB(item, racesWantedB(q))
    IN IF racesWantedB(q) # <<>> THEN SelectSeq(list, Test) ELSE list

charactersResponsesB(list, q) ==
    LET searched == applySearchB(list, q)
        raced == applyRaceB(searched, q)
    IN {Handled("B", q, searchTermB(q), EmptyObject, "", searched, raced, raced, raced)}

-----------------------------------------------------------------------------
(* The requests the model sends *)

PageTexts == {"0", "-1", "abc", "2", " 3", "99", "2x"}

LimitTexts == {"0", "-2", "x", "1", "2", "10"}

Absent == {{}}

Given(key, texts) == {{<<key, v>>} : v \in texts}

PagingQueries ==
    {Query(p \cup l) : p \in Absent \cup Given("page", PageTexts),
                       l \in Absent \cup Given("limit", LimitTexts)}
    \cup {Query({<<"_page", "2">>, <<"_limit", "1">>}),
          Query({<<"page", "">>, <<"_page", "3">>, <<"limit", "1">>})}

SearchQueries ==
    {Query(t \cup l) : t \in Given("q", {"man", " MAN ", "dc", "parker", " "})
                             \cup Given("search", {"man", ""}),
                       l \in Absent \cup Given("limit", {"1"})}

RaceQueries ==
    {Query(r) : r \in Given("race", {"cyborg", "Human", " human , alien", "mutant", ",", ""})}

FilterQueries ==
    {Query(f) : f \in Given("powerstats.strength", {"9", "10", "", "0", "a"})
                      \cup Given("biography.publisher", {"dc", ""})
                      \cup Given("appearance.race", {"human", "0"})
                      \cup Given("category", {"human"})}
    \cup {Query({<<"biography.publisher", "marvel">>, <<"appearance.gender", "female">>})}

SortQueries ==
    {Query(k \cup o \cup l) :
        k \in Given("sort", {"name", "powerstats.strength", "biography.publisher"}),
        o \in Absent \cup Given("order", {"desc", "DESC", "up"}),
        l \in Absent \cup Given("limit", {"2"})}
    \cup {Query({<<"_sort", "name">>, <<"_order", "desc">>})}

Queries == PagingQueries \cup SearchQueries \cup RaceQueries \cup FilterQueries
           \cup SortQueries

-----------------------------------------------------------------------------
(* The server *)

NoRequest == [op |-> "none"]

GetCharactersA ==
    /\ last = NoRequest
    /\ \E q \in Queries : \E response \in charactersResponsesA(db, q) :
          last' = response
    /\ UNCHANGED <<db, clientVars>>

GetCharactersB ==
    /\ last = NoRequest
    /\ \E q \in Queries : \E response \in charactersResponsesB(db, q) :
          last' = response
    /\ UNCHANGED <<db, clientVars>>

\* res.json(...) ends the request: the handlers run to completion one at a time
\* and keep nothing from one request to the next
EndResponse ==
    /\ last # NoRequest
    /\ last' = NoRequest
    /\ UNCHANGED <<db, clientVars>>

ClientIdle ==
    /\ searchValue = ""
    /\ currentPage = 1
    /\ itemsPerPage = 1
    /\ totalPages = 1
    /\ container = [kind |-> "empty"]
    /\ buttons = [count |-> 0, disabled |-> 0]
    /\ inflight = {}
    /\ issued = 0
    /\ anyFailed = FALSE

Init ==
    /\ db \in Collections
    /\ last = NoRequest
    /\ ClientIdle

Next == GetRaces \/ GetCharactersA \/ GetCharactersB \/ EndResponse

Spec == Init /\ [][Next]_vars

-----------------------------------------------------------------------------
(* The browser client.  The server that answers it is the second definition, *)
(* the one that reads the search parameter the client sends.  The card click *)
(* (fetchCharacterDetail) and its back button are left out.                  *)

\* What the user can type in the search box, and the options of the
\* items-per-page select (the page's HTML is not part of the sources)
SearchInputs == {"", "Man", "bat "}

ItemsPerPageOptions == {"1", "2"}

ClientCollection == <<SpiderMan, Cyborg, Batman>>

\* The URL of fetchCharacters: ?page=${currentPage}&limit=${itemsPerPage}&search=${searchTerm}
requestOf(id, page, limit, value) ==
    [id |-> id, page |-> page, limit |-> limit, search |-> toLowerCase(trim(value))]

queryOf(r) ==
    Query({<<"page", intToString(r.page)>>, <<"limit", intToString(r.limit)>>,
           <<"search", r.search>>})

\* data of the server's answer to request r
responsesTo(r) == charactersResponsesB(db, queryOf(r))

\* fetchCharacters up to its first await: the request is built from the values
\* of the search box, currentPage and itemsPerPage at the time of the call
fetchCharacters(page, limit, value) ==
    /\ issued < MaxRequests
    /\ issued' = issued + 1
    /\ inflight' = inflight \cup {requestOf(issued + 1, page, limit, value)}

ClientInit ==
    /\ db = ClientCollection
    /\ last = NoRequest
    /\ searchValue = ""
    /\ currentPage = 1
    /\ itemsPerPage \in {parseInt(v).n : v \in ItemsPerPageOptions}
    /\ totalPages = 1
    /\ container = [kind |-> "empty"]
    /\ buttons = [count |-> 0, disabled |-> 0]
    /\ issued = 1
    /\ inflight = {requestOf(1, 1, itemsPerPage, "")}
    /\ anyFailed = FALSE

\* searchInput 'input' listener
SearchInput ==
    /\ \E v \in SearchInputs \ {searchValue} :
          /\ searchValue' = v
          /\ currentPage' = 1
          /\ fetchCharacters(1, itemsPerPage, v)
    /\ UNCHANGED <<serverVars, itemsPerPage, totalPages, container, buttons, anyFailed>>

\* itemsPerPageSelect 'change' listener
ItemsPerPageChange ==
    /\ \E v \in ItemsPerPageOptions :
          /\ parseInt(v).n # itemsPerPage
          /\ itemsPerPage' = parseInt(v).n
          /\ currentPage' = 1
          /\ fetchCharacters(1, parseInt(v).n, searchValue)
    /\ UNCHANGED <<serverVars, searchValue, totalPages, container, buttons, anyFailed>>

\* 'click' listener of an enabled pagination button
PageClick ==
    /\ \E i \in 1..buttons.count :
          /\ i # buttons.disabled
          /\ currentPage' = i
          /\ fetchCharacters(i, itemsPerPage, searchValue)
    /\ UNCHANGED <<serverVars, searchValue, itemsPerPage, totalPages, container,
                   buttons, anyFailed>>

\* fetchCharacters after its awaits: renderCharacters, totalPages, renderPagination
FetchResolved ==
    /\ \E r \in inflight : \E response \in responsesTo(r) :
          /\ inflight' = inflight \ {r}
          /\ container' = [kind |-> "list", data |-> response.data]
          /\ totalPages' = response.meta.pages
          /\ buttons' = [count |-> response.meta.pages, disabled |-> currentPage]
    /\ UNCHANGED <<serverVars, searchValue, currentPage, itemsPerPage, issued, anyFailed>>

\* fetchCharacters' catch: the fetch or res.json() was rejected
FetchRejected ==
    /\ \E r \in inflight :
          /\ inflight' = inflight \ {r}
          /\ container' = [kind |-> "error"]
          /\ anyFailed' = TRUE
    /\ UNCHANGED <<serverVars, searchValue, currentPage, itemsPerPage, totalPages,
                   buttons, issued>>

ClientNext ==
    SearchInput \/ ItemsPerPageChange \/ PageClick \/ FetchResolved \/ FetchRejected

ClientSpec == ClientInit /\ [][ClientNext]_vars

-----------------------------------------------------------------------------
(* Claims *)

Answered == last.op = "characters"

Positive(n) == n \in Nat /\ n >= 1

HasField(v, k) == v.t = "obj" /\ k \in DOMAIN v.f

\* C8: every record of the list response holds no attribute outside the whitelist
\* {id, name, images, appearance.race} (its appearance group holds race alone), every
\* whitelisted path of the source record has the same value in the output, and
\* prepareCharacter with '*' (or a field list containing '*') returns the record itself
C8_ProjectionWhitelist ==
    /\ Answered =>
          \A i \in 1..Len(last.data) :
              LET out == last.data[i]
                  src == last.slice[i]
              IN /\ out.t = "obj"
                 /\ DOMAIN out.f \subseteq {"id", "name", "images", "appearance"}
                 /\ \A k \in {"id", "name", "images"} :
                       HasField(src, k) => (HasField(out, k) /\ out.f[k] = src.f[k])
                 /\ HasField(out, "appearance") =>
                       /\ out.f["appearance"].t = "obj"
                       /\ DOMAIN out.f["appearance"].f = {"race"}
                 /\ (HasField(src, "appearance") /\ HasField(src.f["appearance"], "race")) =>
                       /\ HasField(out, "appearance")
                       /\ out.f["appearance"].f["race"] = src.f["appearance"].f["race"]
    /\ \A i \in 1..Len(db) :
          /\ prepareCharacter(db[i], FieldString("*")) = db[i]
          /\ prepareCharacter(db[i], FieldArray(<<"id", "*">>)) = db[i]

\* C8 witness: a returned record whose source has a gender, a biography and
\* powerstats, none of which is in the output, and a race, which is
C8_Witness ==
    /\ Answered
    /\ Len(last.data) > 0
    /\ HasField(last.slice[1], "biography")
    /\ HasField(last.slice[1], "powerstats")
    /\ HasField(last.slice[1].f["appearance"], "gender")
    /\ HasField(last.slice[1].f["appearance"], "race")
    /\ DOMAIN last.data[1].f = {"id", "name", "images", "appearance"}

-----------------------------------------------------------------------------
(* C9: the order of the sorted list *)

\* The value of the order parameter; ascending when there is none
OrderValue(q) ==
    IF "order" \in DOMAIN q THEN q["order"]
    ELSE IF "_order" \in DOMAIN q THEN q["_order"]
    ELSE "asc"

\* The comparison policy on two records, ascending: a record missing the key is
\* before one that has it; two values that both parse as numbers compare
\* numerically, any others as case-insensitive text
PolicyAscending(a, b, key) ==
    LET va == getByPath(a, key)
        vb == getByPath(b, key)
    IN IF IsNullish(va) /\ IsNullish(vb) THEN 0
       ELSE IF IsNullish(va) THEN -1
       ELSE IF IsNullish(vb) THEN 1
       ELSE IF ~Number(va).nan /\ ~Number(vb).nan
            THEN Sign(Number(va).n - Number(vb).n)
       ELSE localeCompare(String(va), String(vb))

Policy(a, b, key, descending) ==
    IF descending THEN 0 - PolicyAscending(a, b, key) ELSE PolicyAscending(a, b, key)

PositionIn(list, x) == CHOOSE i \in 1..Len(list) : list[i] = x

\* sorted is a permutation of filtered, every pair of it is in the order of the
\* policy, and records that compare equal keep their order of filtered
OrderedByPolicy(sorted, filtered, key, descending) ==
    /\ Len(sorted) = Len(filtered)
    /\ {sorted[i] : i \in 1..Len(sorted)} = {filtered[i] : i \in 1..Len(filtered)}
    /\ \A i, j \in 1..Len(sorted) :
          i < j =>
             /\ Policy(sorted[i], sorted[j], key, descending) <= 0
             /\ Policy(sorted[i], sorted[j], key, descending) = 0 =>
                   PositionIn(filtered, sorted[i]) < PositionIn(filtered, sorted[j])

\* The policy is a consistent order on the records of the list
PolicyTransitive(list, key) ==
    \A i, j, k \in 1..Len(list) :
        (PolicyAscending(list[i], list[j], key) <= 0
         /\ PolicyAscending(list[j], list[k], key) <= 0)
        => PolicyAscending(list[i], list[k], key) <= 0

Sorting == Answered /\ last.def = "A" /\ last.sortKey # ""

-----------------------------------------------------------------------------
(* C3: the race filter *)

\* The requested tokens: the race parameter split on ',', each token trimmed and
\* lower-cased, the empty ones dropped
RequestedRaces(q) ==
    IF "race" \in DOMAIN q
    THEN {toLowerCase(trim(split(q["race"], ",")[i])) :
             i \in 1..Len(split(q["race"], ","))} \ {""}
    ELSE {}

\* The tokens of a record: its appearance.race split on '/', each token trimmed
\* and lower-cased; none for a record without a race
RecordRaces(item) ==
    IF HasField(item, "appearance") /\ HasField(item.f["appearance"], "race")
       /\ item.f["appearance"].f["race"].t = "str"
    THEN {toLowerCase(trim(split(item.f["appearance"].f["race"].v, "/")[i])) :
             i \in 1..Len(split(item.f["appearance"].f["race"].v, "/"))}
    ELSE {}

PassesRace(item) == RecordRaces(item) \cap RequestedRaces(last.query) # {}

\* C3: when the race filter is active a record passes it if and only if one of the
\* tokens of its race equals one of the requested tokens, in every definition of
\* the /characters handler
C3_RaceFilterMatchesTokens ==
    (Answered /\ RequestedRaces(last.query) # {}) =>
        last.raced = SelectSeq(last.searched, PassesRace)

-----------------------------------------------------------------------------
(* C4 and C5: the generic equality filters *)

\* C4: a record whose value at a filter's path is unresolved does not pass the
\* filter, whatever the expected value
C4_UnresolvedNeverPasses ==
    (Answered /\ last.def = "A") =>
        \A key \in DOMAIN last.filters : \A i \in 1..Len(last.filtered) :
            getByPath(last.filtered[i], key) # Undefined

ReservedNames ==
    {"page", "_page", "limit", "_limit", "sort", "_sort", "order", "_order",
     "q", "search", "race", "category"}

\* C5: no reserved parameter name (page, limit, sort, order, the search-term key,
\* search included, and the category key) is in the filter map
C5_ReservedNeverFilters ==
    Answered => DOMAIN last.filters \cap ReservedNames = {}

-----------------------------------------------------------------------------
(* C6: the free-text search *)

TextAt(item, path) ==
    IF getByPath(item, path).t = "str" THEN getByPath(item, path).v ELSE ""

PassesSearch(item) ==
    \E path \in {"name", "slug", "biography.fullName", "biography.publisher"} :
        includes(toLowerCase(TextAt(item, path)), toLowerCase(last.term))

\* C6: with a search term a record passes if and only if the lower-cased term is
\* a substring of its lower-cased name, slug, biography.fullName or
\* biography.publisher; without one every record passes; in every definition of
\* the /characters handler
C6_SearchMatchesFourFields ==
    Answered =>
        last.searched = IF last.term # "" THEN SelectSeq(db, PassesSearch) ELSE db

-----------------------------------------------------------------------------
(* C7: GET /races *)

IsPlaceholderToken(r) == toLowerCase(r) \in {"", "-", "null", "n/a"}

\* The tokens of every record's race, split on '/' and trimmed, without the
\* empty ones and the placeholders
RaceTokens(list) ==
    {r \in UNION {{trim(split(String(RaceOf(list[i])), "/")[j]) :
                      j \in 1..Len(split(String(RaceOf(list[i])), "/"))} :
                  i \in {k \in 1..Len(list) : RaceOf(list[k]).t = "str"}} :
        ~IsPlaceholderToken(r)}

\* C7: the races are a sorted, duplicate-free list of exactly the tokens of the
\* records' races, and no element contains a '/'
C7_RacesAreTokens ==
    last.op = "races" =>
        /\ {last.races[i] : i \in 1..Len(last.races)} = RaceTokens(db)
        /\ \A i, j \in 1..Len(last.races) :
              /\ i < j => localeCompare(last.races[i], last.races[j]) <= 0
              /\ i # j => last.races[i] # last.races[j]
        /\ \A i \in 1..Len(last.races) : ~includes(last.races[i], "/")

-----------------------------------------------------------------------------
(* C10: the client shows the answer to its latest request *)

CurrentRequest == requestOf(issued, currentPage, itemsPerPage, searchValue)

\* C10: once no fetch is in flight (and none was rejected) the rendered list and
\* totalPages are those of the answer to the current search term, currentPage and
\* itemsPerPage, and currentPage <= totalPages
C10_LatestResponseShown ==
    (inflight = {} /\ ~anyFailed) =>
        /\ \E response \in responsesTo(CurrentRequest) :
              /\ container = [kind |-> "list", data |-> response.data]
              /\ totalPages = response.meta.pages
        /\ currentPage <= totalPages

=============================================================================
